---- MODULE Spec2Model ----
(***************************************************************************)
(* Model of the BlockIP Traefik middleware (src/main.go) and of the        *)
(* helpers it is shipped with.  Go strings are TLA+ strings; the library   *)
(* functions the handler calls (strings.TrimSpace, strings.Split,          *)
(* net.SplitHostPort, net.ParseIP, net.ParseCIDR, IPNet.Contains) are      *)
(* computed character by character and byte by byte as the Go library      *)
(* computes them.                                                          *)
(***************************************************************************)
EXTENDS Integers, Sequences, FiniteSets, TLC

VARIABLES
    config,     \* the *Config the caller created and handed to New (nil: Nil)
    next,       \* the downstream http.Handler handed to New (nil: Nil)
    handler,    \* the *BlockIP New returned (Nil: none)
    err,        \* the error New returned (Nil: nil)
    cache,      \* handler.cache.cache, the map[string]CacheEntry
    req,        \* the request of the last ServeHTTP call (Nil: none yet)
    clientIP,   \* what getClientIP returned for it
    resp,       \* what that call did to the ResponseWriter and to next
    now,        \* the wall clock, in seconds
    last,       \* per client address, the decision an observer noted and when
    prev,       \* the note in force for the request just served (Nil: none)
    arg,        \* the argument of the last call of New or of a helper
    result,     \* what the last call of a helper returned (Nil: none yet)
    inflight,   \* the ServeHTTP calls running side by side, one per goroutine
    logger,     \* the *Logger NewLogger returned (Nil: none)
    logged      \* the messages handed to the logger since it was last cleared

vars == <<config, next, handler, err, cache, req, clientIP, resp, now, last, prev,
          arg, result, inflight, logger, logged>>

\* Go's nil: a nil pointer, a nil slice, a nil interface, a nil error
Nil == <<>>

\* F applied to the value of v: a local of the Go code, assigned once and
\* read as often as F reads it
Let(v, F(_)) == CHOOSE r \in {F(x) : x \in {v}} : TRUE

----------------------------------------------------------------------------
(* Go strings.                                                             *)

\* s[i] of Go, 0-based; "" when i is out of range
At(s, i) == IF i >= 0 /\ i < Len(s) THEN SubSeq(s, i + 1, i + 1) ELSE ""

\* s[i:j] of Go, 0-based, j exclusive
Slice(s, i, j) == SubSeq(s, i + 1, j)

\* s[i:] of Go
From(s, i) == SubSeq(s, i + 1, Len(s))

\* bytealg.IndexByteString: the first index of the byte c in s, or -1
IndexByte(s, c) ==
    Let({i \in 0..(Len(s) - 1) : At(s, i) = c}, LAMBDA hits :
        IF hits = {} THEN -1 ELSE CHOOSE i \in hits : \A j \in hits : i <= j)

\* bytealg.LastIndexByteString: the last index of the byte c in s, or -1
LastIndexByte(s, c) ==
    Let({i \in 0..(Len(s) - 1) : At(s, i) = c}, LAMBDA hits :
        IF hits = {} THEN -1 ELSE CHOOSE i \in hits : \A j \in hits : i >= j)

\* unicode.IsSpace on the bytes a header value or an address can hold
IsSpace(c) == c \in {" ", "\t", "\n", "\r"}

RECURSIVE TrimLeft(_)
TrimLeft(s) == IF Len(s) > 0 /\ IsSpace(At(s, 0)) THEN TrimLeft(From(s, 1)) ELSE s

RECURSIVE TrimRight(_)
TrimRight(s) ==
    IF Len(s) > 0 /\ IsSpace(At(s, Len(s) - 1))
    THEN TrimRight(Slice(s, 0, Len(s) - 1))
    ELSE s

\* strings.TrimSpace
TrimSpace(s) == Let(TrimLeft(s), LAMBDA t : TrimRight(t))

\* strings.Split(s, sep) for a one-byte separator: never an empty result
RECURSIVE Split(_, _)
Split(s, sep) ==
    Let(IndexByte(s, sep), LAMBDA i :
        IF i < 0 THEN <<s>>
        ELSE <<Slice(s, 0, i)>> \o Split(From(s, i + 1), sep))

----------------------------------------------------------------------------
(* net.SplitHostPort (called at src/main.go:123).                          *)

\* [host, err]: err is "" on success, else the library's reason
SplitHostPort(hostport) ==
    LET bracket == At(hostport, 0) = "["
        j == IF bracket THEN 1 ELSE 0
        fail(why) == [host |-> "", err |-> why]
    IN  Let(LastIndexByte(hostport, ":"), LAMBDA i :
        Let(IndexByte(hostport, "]"), LAMBDA end :
        Let(IF bracket THEN Slice(hostport, 1, end) ELSE Slice(hostport, 0, i),
            LAMBDA host :
        Let(IF bracket THEN end + 1 ELSE 0, LAMBDA k :
            IF i < 0 THEN fail("missing port in address")
            ELSE IF bracket /\ end < 0 THEN fail("missing ']' in address")
            ELSE IF bracket /\ end + 1 = Len(hostport)
                 THEN fail("missing port in address")
            ELSE IF bracket /\ end + 1 # i /\ At(hostport, end + 1) = ":"
                 THEN fail("too many colons in address")
            ELSE IF bracket /\ end + 1 # i THEN fail("missing port in address")
            ELSE IF ~bracket /\ IndexByte(host, ":") >= 0
                 THEN fail("too many colons in address")
            ELSE IF IndexByte(From(hostport, j), "[") >= 0
                 THEN fail("unexpected '[' in address")
            ELSE IF IndexByte(From(hostport, k), "]") >= 0
                 THEN fail("unexpected ']' in address")
            ELSE [host |-> host, err |-> ""]))))

----------------------------------------------------------------------------
(* net.ParseIP, net.ParseCIDR and IPNet.Contains.  An IP is Go's byte      *)
(* slice: a sequence of 16 bytes from ParseIP (an IPv4 address in its      *)
(* v4-in-v6 form), of 4 or 16 bytes inside an IPNet.                       *)

DecDigits == <<"0", "1", "2", "3", "4", "5", "6", "7", "8", "9">>
HexLower  == <<"a", "b", "c", "d", "e", "f">>
HexUpper  == <<"A", "B", "C", "D", "E", "F">>

IsDigit(c) == \E d \in 1..10 : DecDigits[d] = c
DigitVal(c) == (CHOOSE d \in 1..10 : DecDigits[d] = c) - 1

IsHex(c) == IsDigit(c) \/ \E d \in 1..6 : HexLower[d] = c \/ HexUpper[d] = c
HexVal(c) ==
    IF IsDigit(c) THEN DigitVal(c)
    ELSE 9 + (CHOOSE d \in 1..6 : HexLower[d] = c \/ HexUpper[d] = c)

v4InV6Prefix == <<0, 0, 0, 0, 0, 0, 0, 0, 0, 0, 255, 255>>

\* one IPv4 field of parseIPv4Fields: 1..3 digits, no leading zero, <= 255;
\* the value, or -1
RECURSIVE DecValue(_, _)
DecValue(s, acc) ==
    IF s = "" THEN acc
    ELSE IF ~IsDigit(At(s, 0)) THEN -1
    ELSE DecValue(From(s, 1), acc * 10 + DigitVal(At(s, 0)))

IPv4Field(s) ==
    IF Len(s) = 0 \/ Len(s) > 3 THEN -1
    ELSE IF Len(s) > 1 /\ At(s, 0) = "0" THEN -1
    ELSE Let(DecValue(s, 0), LAMBDA v : IF v > 255 THEN -1 ELSE v)

\* netip.parseIPv4Fields: the 4 bytes, or Nil
ParseIPv4Fields(s) ==
    Let(Split(s, "."), LAMBDA f :
        IF Len(f) # 4 THEN Nil
        ELSE Let([n \in 1..4 |-> IPv4Field(f[n])], LAMBDA fields :
                 IF \E n \in 1..4 : fields[n] < 0 THEN Nil ELSE fields))

\* the hex digits s starts with: how many there are (off)
RECURSIVE HexRun(_)
HexRun(s) == IF Len(s) > 0 /\ IsHex(At(s, 0)) THEN 1 + HexRun(From(s, 1)) ELSE 0

RECURSIVE HexValue(_, _)
HexValue(s, acc) ==
    IF s = "" THEN acc ELSE HexValue(From(s, 1), acc * 16 + HexVal(At(s, 0)))

\* the loop of netip.parseIPv6: s is what is left to read, ip the bytes
\* written so far (i = Len(ip)), ellipsis the byte index of "::" or -1.
\* The result is [ok, ip, ellipsis, rest]; ok is FALSE on a parse error.
RECURSIVE ParseIPv6Loop(_, _, _)
ParseIPv6Loop(s, ip, ellipsis) ==
    LET i == Len(ip)
        bad == [ok |-> FALSE, ip |-> Nil, ellipsis |-> -1, rest |-> ""]
        done(bytes, e, rest) == [ok |-> TRUE, ip |-> bytes, ellipsis |-> e, rest |-> rest]
    IN  Let(HexRun(s), LAMBDA off :
        Let(HexValue(Slice(s, 0, off), 0), LAMBDA acc :
        Let(ip \o <<acc \div 256, acc % 256>>, LAMBDA ip2 :
        Let(From(s, off), LAMBDA s2 :
        Let(From(s, off + 1), LAMBDA s3 :
            IF i >= 16 THEN done(ip, ellipsis, s)
            ELSE IF off = 0 \/ off > 4 THEN bad
            ELSE IF At(s, off) = "." THEN
                \* a trailing IPv4 address
                IF (ellipsis < 0 /\ i # 12) \/ i + 4 > 16 THEN bad
                ELSE Let(ParseIPv4Fields(s), LAMBDA v4 :
                         IF v4 = Nil THEN bad ELSE done(ip \o v4, ellipsis, ""))
            ELSE IF Len(s2) = 0 THEN done(ip2, ellipsis, "")
            ELSE IF At(s2, 0) # ":" \/ Len(s2) = 1 THEN bad
            ELSE IF At(s3, 0) = ":" THEN
                IF ellipsis >= 0 THEN bad
                ELSE IF Len(s3) = 1 THEN done(ip2, Len(ip2), "")
                ELSE ParseIPv6Loop(From(s3, 1), ip2, Len(ip2))
            ELSE ParseIPv6Loop(s3, ip2, ellipsis))))))

\* netip.parseIPv6 for an address without zone: the 16 bytes, or Nil
ParseIPv6(in) ==
    Let(Len(in) >= 2 /\ At(in, 0) = ":" /\ At(in, 1) = ":", LAMBDA lead :
    Let(ParseIPv6Loop(IF lead THEN From(in, 2) ELSE in, <<>>,
                      IF lead THEN 0 ELSE -1), LAMBDA r :
        IF lead /\ Len(in) = 2 THEN [b \in 1..16 |-> 0]
        ELSE IF ~r.ok THEN Nil
        ELSE IF r.rest # "" THEN Nil
        ELSE IF Len(r.ip) < 16 THEN
            IF r.ellipsis < 0 THEN Nil
            ELSE SubSeq(r.ip, 1, r.ellipsis) \o [b \in 1..(16 - Len(r.ip)) |-> 0]
                 \o SubSeq(r.ip, r.ellipsis + 1, Len(r.ip))
        ELSE IF r.ellipsis >= 0 THEN Nil
        ELSE r.ip))

\* netip.ParseAddr: [ok, bits, ip].  ip is Addr.As16, bits is Addr.BitLen
\* (32 for a dotted quad, 128 for an IPv6 text); an address with a zone
\* ("%") is none for ParseIP and ParseCIDR.
ParseAddr(s) ==
    LET bad == [ok |-> FALSE, bits |-> 0, ip |-> Nil]
    IN  Let(IndexByte(s, "."), LAMBDA dot :
        Let(IndexByte(s, ":"), LAMBDA colon :
            IF IndexByte(s, "%") >= 0 THEN bad
            ELSE IF colon >= 0 /\ (dot < 0 \/ colon < dot) THEN
                Let(ParseIPv6(s), LAMBDA v6 :
                    IF v6 = Nil THEN bad ELSE [ok |-> TRUE, bits |-> 128, ip |-> v6])
            ELSE IF dot >= 0 THEN
                Let(ParseIPv4Fields(s), LAMBDA v4 :
                    IF v4 = Nil THEN bad
                    ELSE [ok |-> TRUE, bits |-> 32, ip |-> v4InV6Prefix \o v4])
            ELSE bad))

\* net.ParseIP: the 16-byte IP, or Nil
ParseIP(s) == ParseAddr(s).ip

\* IP.To4: the 4-byte form of an IPv4 address, or Nil
To4(ip) ==
    IF Len(ip) = 4 THEN ip
    ELSE IF Len(ip) = 16 /\ SubSeq(ip, 1, 12) = v4InV6Prefix THEN SubSeq(ip, 13, 16)
    ELSE Nil

\* a & b on bytes
RECURSIVE ByteAnd(_, _)
ByteAnd(a, b) ==
    IF a = 0 \/ b = 0 THEN 0
    ELSE 2 * ByteAnd(a \div 2, b \div 2) + (a % 2) * (b % 2)

\* 2^n
RECURSIVE Pow2(_)
Pow2(n) == IF n = 0 THEN 1 ELSE 2 * Pow2(n - 1)

\* net.CIDRMask(ones, bits): bits/8 bytes, the first ones bits set
CIDRMask(ones, bits) ==
    [b \in 1..(bits \div 8) |->
        IF ones >= 8 * b THEN 255
        ELSE IF ones <= 8 * (b - 1) THEN 0
        ELSE 256 - Pow2(8 * b - ones)]

allFF(m) == \A b \in 1..Len(m) : m[b] = 255

\* IP.Mask(mask)
Mask(ip, mask) ==
    Let(IF Len(mask) = 16 /\ Len(ip) = 4 /\ allFF(SubSeq(mask, 1, 12))
        THEN SubSeq(mask, 13, 16) ELSE mask, LAMBDA m :
    Let(IF Len(m) = 4 /\ Len(ip) = 16 /\ SubSeq(ip, 1, 12) = v4InV6Prefix
        THEN SubSeq(ip, 13, 16) ELSE ip, LAMBDA x :
        IF Len(x) # Len(m) THEN Nil
        ELSE [b \in 1..Len(x) |-> ByteAnd(x[b], m[b])]))

\* net.dtoi on the whole of s: the number s spells, or -1 when s is empty
\* or holds anything but decimal digits
Dtoi(s) == IF s = "" THEN -1 ELSE DecValue(s, 0)

\* a ParseCIDR that checks the prefix length against 128 whatever the family
ParseCIDRWidth128(s) ==
    LET bad == [err |-> TRUE, IP |-> Nil, Mask |-> Nil]
    IN  Let(IndexByte(s, "/"), LAMBDA i :
            IF i < 0 THEN bad
            ELSE Let(ParseAddr(Slice(s, 0, i)), LAMBDA a :
                 Let(Dtoi(From(s, i + 1)), LAMBDA n :
                     IF ~a.ok THEN bad
                     ELSE IF n < 0 \/ n > 128 THEN bad
                     ELSE Let(CIDRMask(n, a.bits), LAMBDA m :
                              [err |-> FALSE, IP |-> Mask(a.ip, m), Mask |-> m]))))

\* net.ParseCIDR: [err, IP, Mask], the *IPNet; err is TRUE on a parse error
ParseCIDR(s) ==
    LET bad == [err |-> TRUE, IP |-> Nil, Mask |-> Nil]
    IN  Let(IndexByte(s, "/"), LAMBDA i :
            IF i < 0 THEN bad
            ELSE Let(ParseAddr(Slice(s, 0, i)), LAMBDA a :
                 Let(Dtoi(From(s, i + 1)), LAMBDA n :
                     IF ~a.ok THEN bad
                     ELSE IF n < 0 \/ n > a.bits THEN bad
                     ELSE Let(CIDRMask(n, a.bits), LAMBDA m :
                              [err |-> FALSE, IP |-> Mask(a.ip, m), Mask |-> m]))))

\* net.networkNumberAndMask: [ip, m], both Nil when the net is malformed
networkNumberAndMask(n) ==
    LET none == [ip |-> Nil, m |-> Nil]
    IN  Let(To4(n.IP), LAMBDA v4 :
        Let(IF v4 # Nil THEN v4 ELSE n.IP, LAMBDA ip :
            IF v4 = Nil /\ Len(n.IP) # 16 THEN none
            ELSE IF Len(n.Mask) = 4 THEN
                IF Len(ip) # 4 THEN none ELSE [ip |-> ip, m |-> n.Mask]
            ELSE IF Len(n.Mask) = 16 THEN
                [ip |-> ip, m |-> IF Len(ip) = 4 THEN SubSeq(n.Mask, 13, 16) ELSE n.Mask]
            ELSE none))

\* IPNet.Contains
Contains(n, ip) ==
    Let(networkNumberAndMask(n), LAMBDA nm :
    Let(To4(ip), LAMBDA v4 :
    Let(IF v4 # Nil THEN v4 ELSE ip, LAMBDA x :
        /\ Len(x) = Len(nm.ip)
        /\ \A b \in 1..Len(x) : ByteAnd(nm.ip[b], nm.m[b]) = ByteAnd(x[b], nm.m[b]))))

----------------------------------------------------------------------------
(* src/unnamed/part_000: IPUtils.                                          *)

\* IPUtils.ValidateIP
ValidateIP(ip) ==
    Let(TrimSpace(ip), LAMBDA t : IF t = "" THEN FALSE ELSE ParseIP(t) # Nil)

\* IPUtils.ValidateCIDR
ValidateCIDR(cidr) ==
    Let(TrimSpace(cidr), LAMBDA t : IF t = "" THEN FALSE ELSE ~ParseCIDR(t).err)

\* the loop of IPUtils.ExtractIPFromString over the segments ips
RECURSIVE FirstValidIP(_)
FirstValidIP(ips) ==
    IF ips = <<>> THEN ""
    ELSE Let(TrimSpace(Head(ips)), LAMBDA ip :
             IF ValidateIP(ip) THEN ip ELSE FirstValidIP(Tail(ips)))

\* IPUtils.ExtractIPFromString
ExtractIPFromString(s) == FirstValidIP(Split(s, ","))

----------------------------------------------------------------------------
(* src/main.go: Config, New, BlockIP.                                      *)

\* CreateConfig: the default configuration
CreateConfig ==
    [BlockedIPs |-> <<>>, BlockedCIDRs |-> <<>>,
     WhitelistIPs |-> <<>>, WhitelistCIDRs |-> <<>>,
     StatusCode |-> 403, Message |-> "Access Denied",
     Debug |-> FALSE, CacheTTL |-> 300]

\* a New that replaces a non-positive CacheTTL by the default of CreateConfig
NewDefaultTTL(nx, cfg, name) ==
    [handler |-> [next |-> nx, name |-> name],
     config |-> IF cfg # Nil /\ cfg.CacheTTL <= 0
                THEN [cfg EXCEPT !.CacheTTL = CreateConfig.CacheTTL] ELSE cfg,
     cache |-> <<>>, err |-> Nil]

\* New: what it returns for a downstream handler nx, a configuration cfg and
\* a name.  The BlockIP keeps the pointers it is given: handler.next is nx,
\* handler.config is the caller's Config (the variable config), and
\* handler.cache.cache (the variable cache) is a new empty map.  config is
\* the Config as New leaves it: untouched.
New(nx, cfg, name) ==
    [handler |-> [next |-> nx, name |-> name], config |-> cfg,
     cache |-> <<>>, err |-> Nil]

\* BlockIP.getClientIP.  A request is [xff, xri, cf, RemoteAddr]: what
\* req.Header.Get returns for the three headers ("" when absent) and
\* req.RemoteAddr.
getClientIP(r) ==
    IF r.xff # "" THEN TrimSpace(Split(r.xff, ",")[1])
    ELSE IF r.xri # "" THEN TrimSpace(r.xri)
    ELSE IF r.cf # "" THEN TrimSpace(r.cf)
    ELSE IF r.RemoteAddr # "" THEN
        Let(SplitHostPort(r.RemoteAddr), LAMBDA hp :
            IF hp.err = "" THEN hp.host ELSE r.RemoteAddr)
    ELSE ""

\* matchCIDR with the containment test left out: any parsable range matches
matchCIDRAnyNet(ip, cidr) ==
    Let(ParseIP(ip), LAMBDA parsedIP :
        IF parsedIP = Nil THEN FALSE ELSE ~ParseCIDR(cidr).err)

\* BlockIP.matchCIDR
matchCIDR(ip, cidr) ==
    Let(ParseIP(ip), LAMBDA parsedIP :
        IF parsedIP = Nil THEN FALSE
        ELSE Let(ParseCIDR(cidr), LAMBDA ipnet :
                 IF ipnet.err THEN FALSE ELSE Contains(ipnet, parsedIP)))

\* BlockIP.isWhitelisted
isWhitelisted(cfg, ip) ==
    \/ \E i \in 1..Len(cfg.WhitelistIPs) : ip = cfg.WhitelistIPs[i]
    \/ \E i \in 1..Len(cfg.WhitelistCIDRs) : matchCIDR(ip, cfg.WhitelistCIDRs[i])

\* isBlocked with the loop over BlockedCIDRs left out
isBlockedExactOnly(cfg, ip) ==
    \E i \in 1..Len(cfg.BlockedIPs) : ip = cfg.BlockedIPs[i]

\* BlockIP.isBlocked
isBlocked(cfg, ip) ==
    \/ \E i \in 1..Len(cfg.BlockedIPs) : ip = cfg.BlockedIPs[i]
    \/ \E i \in 1..Len(cfg.BlockedCIDRs) : matchCIDR(ip, cfg.BlockedCIDRs[i])

\* What one ServeHTTP call does, as seen from outside: status and body are
\* what the filter wrote with rw.WriteHeader and rw.Write (status 0: nothing
\* written), headerWrites and bodyWrites how often it called them, header
\* the <<name, value>> pairs it set on rw.Header(), nextCalls how often it called
\* next.ServeHTTP, panicked whether the call ended in a run-time panic (a nil
\* dereference).
NoResponse ==
    [status |-> 0, body |-> "", header |-> {}, headerWrites |-> 0,
     bodyWrites |-> 0, nextCalls |-> 0, panicked |-> FALSE]
Panic == [NoResponse EXCEPT !.panicked = TRUE]

\* b.next.ServeHTTP(rw, req)
CallNext(nx) == IF nx = Nil THEN Panic ELSE [NoResponse EXCEPT !.nextCalls = 1]

\* rw.WriteHeader(code); rw.Write([]byte(message))
WriteRejection(code, message) ==
    [NoResponse EXCEPT !.status = code, !.headerWrites = 1,
                       !.body = message, !.bodyWrites = 1]

\* ServeHTTP with the two checks in the other order: blocklist first
ServeBlockFirst(nx, cfg, r) ==
    Let(getClientIP(r), LAMBDA ip :
        IF cfg = Nil THEN Panic
        ELSE IF isBlocked(cfg, ip) THEN WriteRejection(cfg.StatusCode, cfg.Message)
        ELSE CallNext(nx))

\* ServeHTTP without the return after the rejection: it falls through to the
\* call of next
ServeNoReturn(nx, cfg, r) ==
    Let(getClientIP(r), LAMBDA ip :
        IF cfg = Nil THEN Panic
        ELSE IF isWhitelisted(cfg, ip) THEN CallNext(nx)
        ELSE IF isBlocked(cfg, ip) THEN
            [WriteRejection(cfg.StatusCode, cfg.Message) EXCEPT !.nextCalls = 1]
        ELSE CallNext(nx))

\* ServeHTTP answering from the noted decision for the address whenever there
\* is one, however old, and evaluating the rules only when there is none
ServeCached(nx, cfg, r) ==
    Let(getClientIP(r), LAMBDA ip :
        IF cfg = Nil THEN Panic
        ELSE IF ip \in DOMAIN last THEN
            IF last[ip].Status = "blocked" THEN WriteRejection(cfg.StatusCode, cfg.Message)
            ELSE CallNext(nx)
        ELSE IF isWhitelisted(cfg, ip) THEN CallNext(nx)
        ELSE IF isBlocked(cfg, ip) THEN WriteRejection(cfg.StatusCode, cfg.Message)
        ELSE CallNext(nx))

\* ServeHTTP with the return of the blocked branch inside the branch's
\* if b.config.Debug block: without debug the rejection falls through to next
ServeReturnInDebug(nx, cfg, r) ==
    Let(getClientIP(r), LAMBDA ip :
        IF cfg = Nil THEN Panic
        ELSE IF isWhitelisted(cfg, ip) THEN CallNext(nx)
        ELSE IF isBlocked(cfg, ip) THEN
            IF cfg.Debug THEN WriteRejection(cfg.StatusCode, cfg.Message)
            ELSE [WriteRejection(cfg.StatusCode, cfg.Message) EXCEPT !.nextCalls = 1]
        ELSE CallNext(nx))

\* BlockIP.ServeHTTP for a handler with downstream nx and configuration cfg
Serve(nx, cfg, r) ==
    Let(getClientIP(r), LAMBDA ip :
        IF cfg = Nil THEN Panic
        ELSE IF isWhitelisted(cfg, ip) THEN CallNext(nx)
        ELSE IF isBlocked(cfg, ip) THEN WriteRejection(cfg.StatusCode, cfg.Message)
        ELSE CallNext(nx))

\* What the calls of matchCIDR made by one scan of cidrs print: a line for
\* each CIDR that does not parse, up to the first range that holds ip; nothing
\* when ip is no address (matchCIDR returns before it parses the CIDR)
CIDRLines(ip, cidrs) ==
    IF ParseIP(ip) = Nil THEN <<>>
    ELSE Let(IF \E i \in 1..Len(cidrs) : matchCIDR(ip, cidrs[i])
             THEN CHOOSE i \in 1..Len(cidrs) :
                    /\ matchCIDR(ip, cidrs[i])
                    /\ \A j \in 1..(i - 1) : ~matchCIDR(ip, cidrs[j])
             ELSE Len(cidrs),
             LAMBDA stop :
                [i \in 1..Len(SelectSeq(SubSeq(cidrs, 1, stop),
                                        LAMBDA c : ParseCIDR(c).err)) |->
                    "Invalid CIDR"])

\* What one ServeHTTP call prints on standard output: the lines of its
\* if b.config.Debug blocks and of matchCIDR's
Printed(cfg, r) ==
    IF ~cfg.Debug THEN <<>>
    ELSE Let(getClientIP(r), LAMBDA ip :
        <<"Processing request">> \o
        (IF \E i \in 1..Len(cfg.WhitelistIPs) : ip = cfg.WhitelistIPs[i]
         THEN <<"whitelisted, allowing">>
         ELSE CIDRLines(ip, cfg.WhitelistCIDRs) \o
              (IF isWhitelisted(cfg, ip) THEN <<"whitelisted, allowing">>
               ELSE IF \E i \in 1..Len(cfg.BlockedIPs) : ip = cfg.BlockedIPs[i]
               THEN <<"blocked, rejecting">>
               ELSE CIDRLines(ip, cfg.BlockedCIDRs) \o
                    (IF isBlocked(cfg, ip) THEN <<"blocked, rejecting">> ELSE <<>>))))

\* the two outcomes of a request
Forwarded(rs) == rs.nextCalls = 1 /\ rs.status = 0 /\ ~rs.panicked
Rejected(rs) == rs.nextCalls = 0 /\ rs.status # 0 /\ ~rs.panicked

----------------------------------------------------------------------------
(* The state machine: the caller builds a handler with New, the hosting    *)
(* runtime calls ServeHTTP once per request, time passes, and the caller   *)
(* may rewrite the Config it still holds a pointer to.                     *)

MaxEntries == 2       \* entries per rule list
MaxStatusCode == 700  \* status codes 0..MaxStatusCode at construction
MaxTime == 3          \* the clock runs from 0 to MaxTime
MaxTTL == 2           \* cacheTTL values 1..MaxTTL

\* the lists of at most MaxEntries consecutive entries of master
Windows(master) ==
    {SubSeq(master, p[1], p[2]) :
        p \in {q \in (1..(Len(master) + 1)) \X (0..Len(master)) :
                  q[2] - q[1] + 1 <= MaxEntries}}

Downstream == [handler |-> "next"]

NoRequest == Nil

Request(xff, xri, cf, remote) ==
    [xff |-> xff, xri |-> xri, cf |-> cf, RemoteAddr |-> remote]

\* configurations and requests for the rule-evaluation claims
RuleConfigs ==
    {[CreateConfig EXCEPT !.BlockedIPs = bi, !.BlockedCIDRs = bc,
                          !.WhitelistIPs = wi, !.WhitelistCIDRs = wc,
                          !.StatusCode = rj[1], !.Message = rj[2]] :
        bi \in Windows(<<"10.0.0.1", "2001:db8::1", "bad">>),
        bc \in Windows(<<"10.0.0.0/8", "2001:db8::/32", "10.0.0.0/99">>),
        wi \in Windows(<<"10.0.0.1", "2001:db8::1">>),
        wc \in Windows(<<"10.0.0.0/24", "2001:db8::/64">>),
        rj \in {<<403, "Access Denied">>, <<500, "Blocked">>}}

RuleRequests ==
    {Request("", "", "", remote) :
        remote \in {"", "10.0.0.1:1234", "10.0.1.2:80", "[2001:db8::1]:443",
                    "192.168.1.50:1234"}}
    \cup {Request("10.0.0.1", "", "", "192.168.1.50:1234")}

\* configurations and requests for the client-address claims
ResolveConfigs ==
    {[CreateConfig EXCEPT !.BlockedIPs = bi, !.BlockedCIDRs = bc] :
        bi \in Windows(<<"10.0.0.1", "bad", "">>),
        bc \in Windows(<<"10.0.0.0/8">>)}

ResolveRequests ==
    {Request(xff, xri, cf, remote) :
        xff \in {"", "10.0.0.1", "bad, 10.0.0.1", " 192.168.1.50 , 10.0.0.1", "bad", " "},
        xri \in {"", "10.0.0.1", " 192.168.1.50 "},
        cf \in {"", "10.0.0.1"},
        remote \in {"", "10.0.0.1:80", "bad"}}

\* configurations, downstream handlers for the construction claims
NewConfigs ==
    {Nil} \cup {[CreateConfig EXCEPT !.StatusCode = c, !.CacheTTL = t] :
                    c \in 0..MaxStatusCode, t \in {-1, 0, 1, 300}}

\* configurations, rule rewrites and requests for the cache claims
CacheRuleLists == Windows(<<"10.0.0.1">>)

CacheConfigs ==
    {[CreateConfig EXCEPT !.BlockedIPs = bi, !.WhitelistIPs = wi, !.CacheTTL = t] :
        bi \in CacheRuleLists, wi \in CacheRuleLists, t \in 1..MaxTTL}

CacheRequests ==
    {Request("", "", "", remote) : remote \in {"10.0.0.1:1234", "192.168.1.50:1234"}}

MaxCalls == 2         \* ServeHTTP calls running at the same time

\* the goroutines the runtime serves requests on
Calls == 1..MaxCalls

\* a goroutine that is not inside ServeHTTP
IdleCall == [pc |-> "idle", req |-> NoRequest, clientIP |-> "", resp |-> NoResponse]

Init ==
    /\ config = Nil
    /\ next = Nil
    /\ handler = Nil
    /\ err = Nil
    /\ cache = <<>>
    /\ req = NoRequest
    /\ clientIP = ""
    /\ resp = NoResponse
    /\ now = 0
    /\ last = <<>>
    /\ prev = Nil
    /\ arg = Nil
    /\ result = Nil
    /\ inflight = [c \in Calls |-> IdleCall]
    /\ logger = Nil
    /\ logged = <<>>

\* the caller calls New(ctx, nx, cfg, name)
NewCall(cfgs, nexts) ==
    /\ handler = Nil
    /\ err = Nil
    /\ \E cfg \in cfgs, nx \in nexts :
        LET r == New(nx, cfg, "blockip")
        IN  /\ arg' = cfg
            /\ config' = r.config
            /\ next' = nx
            /\ handler' = r.handler
            /\ cache' = r.cache
            /\ err' = r.err
    /\ UNCHANGED <<req, clientIP, resp, now, last, prev, result, inflight, logger, logged>>

\* the runtime calls handler.ServeHTTP(rw, r) on a fresh ResponseWriter
ServeHTTP(reqs) ==
    /\ handler # Nil
    /\ \E r \in reqs :
        /\ req' = r
        /\ clientIP' = getClientIP(r)
        /\ resp' = Serve(handler.next, config, r)
    /\ UNCHANGED <<config, next, handler, err, cache, now, arg, result, inflight, logger, logged>>

\* What an observer of the handler notes down, as the CacheEntry the
\* documented result cache would hold for each client address: the decision
\* (Status: "blocked" for a rejection, "allowed" otherwise) and when it was
\* taken (Timestamp).  A note stands for CacheTTL
\* seconds; a request served after that replaces it.  prev is the note that
\* was in force for the address of the request just served, and the time
\* (servedAt) of that request.
Observe ==
    /\ prev' = IF clientIP' \in DOMAIN last
               THEN [ip |-> clientIP', Status |-> last[clientIP'].Status,
                     Timestamp |-> last[clientIP'].Timestamp, servedAt |-> now]
               ELSE Nil
    /\ last' = IF /\ clientIP' \in DOMAIN last
                  /\ now - last[clientIP'].Timestamp <= config.CacheTTL
               THEN last
               ELSE [a \in DOMAIN last \cup {clientIP'} |->
                        IF a = clientIP'
                        THEN [Status |-> IF Rejected(resp') THEN "blocked" ELSE "allowed",
                              Timestamp |-> now]
                        ELSE last[a]]

\* a second passes
Tick ==
    /\ now < MaxTime
    /\ now' = now + 1
    /\ UNCHANGED <<config, next, handler, err, cache, req, clientIP, resp, last, prev,
                   arg, result, inflight, logger, logged>>

\* the caller rewrites the blocklist of the Config the handler points to
SetBlockedIPs ==
    /\ handler # Nil
    /\ config # Nil
    /\ \E bi \in CacheRuleLists : config' = [config EXCEPT !.BlockedIPs = bi]
    /\ UNCHANGED <<next, handler, err, cache, req, clientIP, resp, now, last, prev,
                   arg, result, inflight, logger, logged>>

\* the caller rewrites the whitelist of the Config the handler points to
SetWhitelistIPs ==
    /\ handler # Nil
    /\ config # Nil
    /\ \E wi \in CacheRuleLists : config' = [config EXCEPT !.WhitelistIPs = wi]
    /\ UNCHANGED <<next, handler, err, cache, req, clientIP, resp, now, last, prev,
                   arg, result, inflight, logger, logged>>

\* The result cache's write path.  IPCache and CacheEntry are declared, New
\* makes the empty map; record and its sweep follow the cache's description:
\* insert or overwrite with the current timestamp, then, if the table holds
\* more than the capacity threshold, delete every entry older than the TTL.
MaxCacheEntries == 2  \* capacity threshold, a small stand-in for 10,000

\* the keys of a cache map
Keys(c) == {k \in DOMAIN c : TRUE}

\* a sweep that also deletes the entries whose age is exactly the TTL
sweepAtTTL(c, ttl, t) ==
    [k \in {a \in Keys(c) : t - c[a].Timestamp < ttl} |-> c[k]]

\* sweep: delete every entry whose age exceeds ttl
sweep(c, ttl, t) ==
    [k \in {a \in Keys(c) : t - c[a].Timestamp <= ttl} |-> c[k]]

\* record(key, classification) at time t
record(c, ttl, key, classification, t) ==
    Let([k \in Keys(c) \cup {key} |->
            IF k = key THEN [Status |-> classification, Timestamp |-> t] ELSE c[k]],
        LAMBDA inserted :
            IF Cardinality(Keys(inserted)) > MaxCacheEntries
            THEN sweep(inserted, ttl, t)
            ELSE inserted)

\* the classification ServeHTTP's evaluation gives an address
Classify(cfg, ip) ==
    IF isWhitelisted(cfg, ip) THEN "whitelisted"
    ELSE IF isBlocked(cfg, ip) THEN "blocked"
    ELSE "allowed"

SweepKeys == {"10.0.0.1", "10.0.1.2", "192.168.1.50", "2001:db8::1"}

SweepConfigs ==
    {[CreateConfig EXCEPT !.BlockedIPs = <<"10.0.0.1">>,
                          !.WhitelistIPs = <<"10.0.1.2">>, !.CacheTTL = t] :
        t \in 1..MaxTTL}

\* a classification is recorded under key; result notes how many entries the
\* call deleted
RecordCall(key) ==
    /\ handler # Nil
    /\ arg' = [key |-> key]
    /\ cache' = record(cache, config.CacheTTL, key, Classify(config, key), now)
    /\ result' = [deleted |->
            Cardinality(Keys(cache) \cup {key}) - Cardinality(Keys(cache'))]
    /\ UNCHANGED <<config, next, handler, err, req, clientIP, resp, now, last, prev,
                   inflight, logger, logged>>

NextSweep ==
    \/ NewCall(SweepConfigs, {Downstream})
    \/ \E key \in SweepKeys : RecordCall(key)
    \/ Tick

SpecSweep == Init /\ [][NextSweep]_vars

\* IPUtils.ValidateCIDR as a function of its argument: the texts it is given
\* are an address part, a prefix part and blanks around them
CIDRAddresses ==
    {"192.168.0.0", "10.0.0.0", "2001:db8::", "::ffff:10.0.0.1", "256.0.0.0",
     "invalid", "1.2.3", ""}

CIDRPrefixes ==
    {"", "/", "/0", "/8", "/08", "/16", "/32", "/33", "/128", "/129", "/x",
     "/-1", "/8/", "/ 8"}

CIDRTexts ==
    {pad[1] \o a \o p \o pad[2] :
        a \in CIDRAddresses, p \in CIDRPrefixes,
        pad \in {<<"", "">>, <<" ", "">>, <<"", " ">>}}

\* the caller holds a text and has not called yet
InitValidate ==
    /\ config = Nil
    /\ next = Nil
    /\ handler = Nil
    /\ err = Nil
    /\ cache = <<>>
    /\ req = NoRequest
    /\ clientIP = ""
    /\ resp = NoResponse
    /\ now = 0
    /\ last = <<>>
    /\ prev = Nil
    /\ arg \in CIDRTexts
    /\ result = Nil
    /\ inflight = [c \in Calls |-> IdleCall]
    /\ logger = Nil
    /\ logged = <<>>

\* the caller calls utils.ValidateCIDR(arg)
ValidateCIDRCall ==
    /\ result = Nil
    /\ result' = [ok |-> ValidateCIDR(arg)]
    /\ UNCHANGED <<config, next, handler, err, cache, req, clientIP, resp, now,
                   last, prev, arg, inflight, logger, logged>>

NextValidate ==
    \/ ValidateCIDRCall

SpecValidate == InitValidate /\ [][NextValidate]_vars

\* isWhitelisted, isBlocked and the outcome of ServeHTTP as functions of the
\* configuration and the text of the client address: each is applied to two
\* texts that net.ParseIP reads as the same address.
FormTexts ==
    {"2001:db8::1", "2001:DB8::1", "2001:0db8:0:0:0:0:0:1", "2001:db8:0:0::1",
     "10.0.0.1", "::ffff:10.0.0.1", "10.0.1.2", "::ffff:a00:102", "192.168.1.50"}

FormConfigs ==
    {[CreateConfig EXCEPT !.BlockedIPs = bi, !.BlockedCIDRs = bc,
                          !.WhitelistIPs = wi, !.WhitelistCIDRs = wc] :
        bi \in Windows(<<"10.0.0.1", "2001:db8::1">>),
        bc \in Windows(<<"10.0.0.0/8", "2001:db8::/32">>),
        wi \in Windows(<<"2001:db8::1">>),
        wc \in Windows(<<"10.0.0.0/24">>)}

\* the pairs of texts that are the same address
FormPairs == {p \in FormTexts \X FormTexts : ParseIP(p[1]) = ParseIP(p[2])}

\* a request whose client address is the text a
FormRequest(a) == Request(a, "", "", "192.168.1.50:1234")

\* the caller holds a configuration and two texts of one address
InitForms ==
    /\ config = Nil
    /\ next = Nil
    /\ handler = Nil
    /\ err = Nil
    /\ cache = <<>>
    /\ req = NoRequest
    /\ clientIP = ""
    /\ resp = NoResponse
    /\ now = 0
    /\ last = <<>>
    /\ prev = Nil
    /\ arg \in {[cfg |-> c, a |-> p[1], b |-> p[2]] : c \in FormConfigs, p \in FormPairs}
    /\ result = Nil
    /\ inflight = [c \in Calls |-> IdleCall]
    /\ logger = Nil
    /\ logged = <<>>

\* both texts are put to isWhitelisted and isBlocked and sent as a request
FormsCall ==
    /\ result = Nil
    /\ result' =
          [whitelistedA |-> isWhitelisted(arg.cfg, arg.a),
           whitelistedB |-> isWhitelisted(arg.cfg, arg.b),
           blockedA |-> isBlocked(arg.cfg, arg.a),
           blockedB |-> isBlocked(arg.cfg, arg.b),
           respA |-> Serve(Downstream, arg.cfg, FormRequest(arg.a)),
           respB |-> Serve(Downstream, arg.cfg, FormRequest(arg.b))]
    /\ UNCHANGED <<config, next, handler, err, cache, req, clientIP, resp, now,
                   last, prev, arg, inflight, logger, logged>>

NextForms ==
    \/ FormsCall

SpecForms == InitForms /\ [][NextForms]_vars

\* ServeHTTP as a function of the configuration and the request, run once
\* with Debug on and once with Debug off
DebugConfigs ==
    {[CreateConfig EXCEPT !.BlockedIPs = bi, !.BlockedCIDRs = bc,
                          !.WhitelistIPs = wi, !.WhitelistCIDRs = wc,
                          !.StatusCode = rj[1], !.Message = rj[2]] :
        bi \in Windows(<<"10.0.0.1">>),
        bc \in Windows(<<"10.0.0.0/99", "10.0.0.0/8">>),
        wi \in Windows(<<"10.0.1.2">>),
        wc \in Windows(<<"bad/8", "10.0.0.0/24">>),
        rj \in {<<403, "Access Denied">>, <<500, "Blocked">>}}

DebugRequests ==
    {Request(xff, "", "", "10.0.0.1:1234") : xff \in {"", "10.0.1.2", "10.0.0.7", "bad"}}
    \cup {Request("", "", "", "192.168.1.50:1234")}

\* the caller holds a configuration and a request
InitDebug ==
    /\ config = Nil
    /\ next = Nil
    /\ handler = Nil
    /\ err = Nil
    /\ cache = <<>>
    /\ req = NoRequest
    /\ clientIP = ""
    /\ resp = NoResponse
    /\ now = 0
    /\ last = <<>>
    /\ prev = Nil
    /\ arg \in {[cfg |-> c, req |-> r] : c \in DebugConfigs, r \in DebugRequests}
    /\ result = Nil
    /\ inflight = [c \in Calls |-> IdleCall]
    /\ logger = Nil
    /\ logged = <<>>

\* the request is served by a handler with Debug on and by one with Debug off
DebugCall ==
    /\ result = Nil
    /\ result' =
          Let([arg.cfg EXCEPT !.Debug = TRUE], LAMBDA on :
          Let([arg.cfg EXCEPT !.Debug = FALSE], LAMBDA off :
              [respOn |-> Serve(Downstream, on, arg.req),
               respOff |-> Serve(Downstream, off, arg.req),
               printedOn |-> Printed(on, arg.req),
               printedOff |-> Printed(off, arg.req)]))
    /\ UNCHANGED <<config, next, handler, err, cache, req, clientIP, resp, now,
                   last, prev, arg, inflight, logger, logged>>

NextDebug ==
    \/ DebugCall

SpecDebug == InitDebug /\ [][NextDebug]_vars

(* src/unnamed/part_002: Logger.                                           *)

MaxBuffSize == 2      \* maxBuffSize, a small stand-in for 1000
MaxLogged == 4        \* logging calls between two ClearLogs calls

\* NewLogger
NewLogger(debug) ==
    [debug |-> debug, logBuffer |-> <<>>, maxBuffSize |-> MaxBuffSize]

\* the message log builds: the time, the level and the formatted text
Message(t, level, text) == [time |-> t, level |-> level, text |-> text]

\* a log that rotates only once the buffer holds more than maxBuffSize
logRotateLate(l, level, text, t) ==
    [l EXCEPT !.logBuffer =
        IF Len(@) <= l.maxBuffSize
        THEN Append(@, Message(t, level, text))
        ELSE Append(Tail(@), Message(t, level, text))]

\* Logger.log, run under l.mu from its first statement to its return
log(l, level, text, t) ==
    [l EXCEPT !.logBuffer =
        IF Len(@) < l.maxBuffSize
        THEN Append(@, Message(t, level, text))
        ELSE Append(Tail(@), Message(t, level, text))]

\* Logger.GetLogs
GetLogs(l, count) ==
    IF count <= 0 \/ count > Len(l.logBuffer) THEN l.logBuffer
    ELSE SubSeq(l.logBuffer, Len(l.logBuffer) - count + 1, Len(l.logBuffer))

\* Logger.ClearLogs
ClearLogs(l) == [l EXCEPT !.logBuffer = <<>>]

\* the variables of the filter, which the logger does not touch
notLogging ==
    <<config, next, handler, err, cache, req, clientIP, resp, now, last, prev,
      arg, inflight>>

LogTexts == {"request served"}

\* the caller calls NewLogger(debug)
NewLoggerCall ==
    /\ logger = Nil
    /\ \E debug \in BOOLEAN : logger' = NewLogger(debug)
    /\ UNCHANGED <<notLogging, result, logged>>

\* a caller calls l.Debug(text)
Debug(text) ==
    /\ logger # Nil
    /\ Len(logged) < MaxLogged
    /\ logger' = IF logger.debug THEN log(logger, "DEBUG", text, now) ELSE logger
    /\ logged' = Append(logged, Message(now, "DEBUG", text))
    /\ UNCHANGED <<notLogging, result>>

\* a caller calls l.Info(text)
Info(text) ==
    /\ logger # Nil
    /\ Len(logged) < MaxLogged
    /\ logger' = log(logger, "INFO", text, now)
    /\ logged' = Append(logged, Message(now, "INFO", text))
    /\ UNCHANGED <<notLogging, result>>

\* a caller calls l.Warn(text)
Warn(text) ==
    /\ logger # Nil
    /\ Len(logged) < MaxLogged
    /\ logger' = log(logger, "WARN", text, now)
    /\ logged' = Append(logged, Message(now, "WARN", text))
    /\ UNCHANGED <<notLogging, result>>

\* a caller calls l.Error(text)
Error(text) ==
    /\ logger # Nil
    /\ Len(logged) < MaxLogged
    /\ logger' = log(logger, "ERROR", text, now)
    /\ logged' = Append(logged, Message(now, "ERROR", text))
    /\ UNCHANGED <<notLogging, result>>

\* a caller calls l.GetLogs(count)
GetLogsCall ==
    /\ logger # Nil
    /\ \E count \in -1..(MaxBuffSize + 1) :
        result' = [count |-> count, logs |-> GetLogs(logger, count)]
    /\ UNCHANGED <<notLogging, logger, logged>>

\* a caller calls l.ClearLogs()
ClearLogsCall ==
    /\ logger # Nil
    /\ logger' = ClearLogs(logger)
    /\ logged' = <<>>
    /\ UNCHANGED <<notLogging, result>>

NextLogger ==
    \/ NewLoggerCall
    \/ \E text \in LogTexts : Debug(text)
    \/ \E text \in LogTexts : Info(text)
    \/ \E text \in LogTexts : Warn(text)
    \/ \E text \in LogTexts : Error(text)
    \/ GetLogsCall
    \/ ClearLogsCall

SpecLogger == Init /\ [][NextLogger]_vars

(* src/denyIpPlugin/denyip.go: the denyip plugin.                          *)

\* strings.Trim(s, "[]")
RECURSIVE TrimBrackets(_)
TrimBrackets(s) ==
    IF Len(s) > 0 /\ At(s, 0) \in {"[", "]"} THEN TrimBrackets(From(s, 1))
    ELSE IF Len(s) > 0 /\ At(s, Len(s) - 1) \in {"[", "]"}
         THEN TrimBrackets(Slice(s, 0, Len(s) - 1))
    ELSE s

\* s without its empty strings
NonEmpty(s) == SelectSeq(s, LAMBDA x : Len(x) > 0)

\* denyIP.GetRemoteIP: the X-Forwarded-For entries from the last to the
\* first, then the peer address
GetRemoteIP(r) ==
    Let(Split(r.xff, ","), LAMBDA xffs :
    Let(SplitHostPort(r.RemoteAddr), LAMBDA hp :
        NonEmpty([i \in 1..Len(xffs) |->
                    TrimBrackets(TrimSpace(xffs[Len(xffs) + 1 - i]))])
        \o
        Let(TrimSpace(IF hp.err # "" THEN r.RemoteAddr ELSE hp.host), LAMBDA t :
            IF Len(t) > 0 THEN <<TrimBrackets(t)>> ELSE <<>>)))

\* NewChecker: [checker, err]; the checker is [denyIPs, denyIPsNet]
NewChecker(deniedIPs) ==
    Let([i \in 1..Len(deniedIPs) |-> TrimBrackets(deniedIPs[i])], LAMBDA masks :
        IF Len(deniedIPs) = 0
        THEN [checker |-> Nil, err |-> [msg |-> "no denied IPs provided"]]
        ELSE IF \E i \in 1..Len(masks) :
                    ParseCIDR(masks[i]).err /\ ParseIP(masks[i]) = Nil
        THEN [checker |-> Nil, err |-> [msg |-> "invalid IP or CIDR format"]]
        ELSE [checker |->
                [denyIPsNet |->
                    Let(SelectSeq(masks, LAMBDA m : ~ParseCIDR(m).err), LAMBDA nets :
                        [i \in 1..Len(nets) |-> ParseCIDR(nets[i])]),
                 denyIPs |->
                    Let(SelectSeq(masks, LAMBDA m : ParseCIDR(m).err), LAMBDA ips :
                        [i \in 1..Len(ips) |-> ParseIP(ips[i])])],
              err |-> Nil])

\* denyip's New: [handler, err]
DenyNew(nx, cfg, name) ==
    Let(NewChecker(cfg.IPDenyList), LAMBDA c :
        IF c.err # Nil THEN [handler |-> Nil, err |-> c.err]
        ELSE [handler |-> [checker |-> c.checker, next |-> nx, name |-> name],
              err |-> Nil])

\* Checker.ContainsIP
ContainsIP(ck, addr) ==
    \/ \E i \in 1..Len(ck.denyIPs) : ck.denyIPs[i] = addr
    \/ \E i \in 1..Len(ck.denyIPsNet) : Contains(ck.denyIPsNet[i], addr)

\* denyip's parseIP: the net.IP, Nil with an error
parseIP(addr) == ParseIP(TrimBrackets(addr))

\* Checker.Contains: [isBlocked, err]
CheckerContains(ck, addr) ==
    IF Len(addr) = 0 THEN [isBlocked |-> FALSE, err |-> TRUE]
    ELSE Let(parseIP(addr), LAMBDA ipAddr :
             IF ipAddr = Nil THEN [isBlocked |-> FALSE, err |-> TRUE]
             ELSE [isBlocked |-> ContainsIP(ck, ipAddr), err |-> FALSE])

\* rw.WriteHeader(http.StatusForbidden)
Forbidden == [NoResponse EXCEPT !.status = 403, !.headerWrites = 1]

\* a loop that gives up at the first address that does not parse and
\* forwards the request
RECURSIVE DenyLoopStopAtError(_, _, _)
DenyLoopStopAtError(h, reqIPAddr, i) ==
    IF i < 1 THEN CallNext(h.next)
    ELSE Let(CheckerContains(h.checker, reqIPAddr[i]), LAMBDA c :
             IF c.err THEN CallNext(h.next)
             ELSE IF c.isBlocked THEN Forbidden
             ELSE DenyLoopStopAtError(h, reqIPAddr, i - 1))

\* the loop of denyIP.ServeHTTP from index i down, and the call of next
\* after it
RECURSIVE DenyLoop(_, _, _)
DenyLoop(h, reqIPAddr, i) ==
    IF i < 1 THEN CallNext(h.next)
    ELSE IF CheckerContains(h.checker, reqIPAddr[i]).isBlocked THEN Forbidden
    ELSE DenyLoop(h, reqIPAddr, i - 1)

\* a denyIP.ServeHTTP whose loop stops at the first error
DenyServeStopAtError(h, r) ==
    Let(GetRemoteIP(r), LAMBDA reqIPAddr :
        DenyLoopStopAtError(h, reqIPAddr, Len(reqIPAddr)))

\* denyIP.ServeHTTP
DenyServeHTTP(h, r) ==
    Let(GetRemoteIP(r), LAMBDA reqIPAddr : DenyLoop(h, reqIPAddr, Len(reqIPAddr)))

DenyLists ==
    Windows(<<"10.0.0.1", "192.168.1.0/24", "[2001:db8::1]", "2001:db8:1::/48">>)
    \cup {<<"bad">>}

DenyRequests ==
    {Request(xff, "", "", remote) :
        xff \in {"", "10.0.0.1", "bad, 10.0.0.1", "10.0.0.1, bad",
                 " [2001:DB8::1] ,8.8.8.8", "8.8.8.8", ",", "::ffff:10.0.0.1"},
        remote \in {"", "192.168.1.7:1234", "[2001:db8:1::5]:443", "8.8.8.8:53",
                    "10.0.0.1", "bad", "[]"}}

\* the caller holds a deny list and a request
InitDeny ==
    /\ config = Nil
    /\ next = Nil
    /\ handler = Nil
    /\ err = Nil
    /\ cache = <<>>
    /\ req = NoRequest
    /\ clientIP = ""
    /\ resp = NoResponse
    /\ now = 0
    /\ last = <<>>
    /\ prev = Nil
    /\ arg \in {[cfg |-> [IPDenyList |-> d], req |-> r] :
                    d \in DenyLists, r \in DenyRequests}
    /\ result = Nil
    /\ inflight = [c \in Calls |-> IdleCall]
    /\ logger = Nil
    /\ logged = <<>>

\* the caller calls denyip's New(ctx, next, cfg, name)
DenyNewCall ==
    /\ result = Nil
    /\ result' = [new |-> DenyNew(Downstream, arg.cfg, "denyip"), resp |-> Nil]
    /\ UNCHANGED <<notLogging, logger, logged>>

\* the runtime calls the handler's ServeHTTP on a fresh ResponseWriter
DenyServeHTTPCall ==
    /\ result # Nil
    /\ result.new.err = Nil
    /\ result.resp = Nil
    /\ result' = [result EXCEPT !.resp = DenyServeHTTP(result.new.handler, arg.req)]
    /\ UNCHANGED <<notLogging, logger, logged>>

NextDeny ==
    \/ DenyNewCall
    \/ DenyServeHTTPCall

SpecDeny == InitDeny /\ [][NextDeny]_vars

\* ServeHTTP calls side by side.  net/http runs every request on a goroutine
\* of its own, all on the one *BlockIP; a call is taken a statement at a
\* time: getClientIP, the whitelist test, the blocklist test, the return.

\* clientIP kept where every call sees it, not in a local of the call: a call
\* reads what a call running beside it stored
ClientOfShared(c) ==
    IF \E d \in Calls \ {c} : inflight[d].pc # "idle"
    THEN inflight[CHOOSE d \in Calls \ {c} : inflight[d].pc # "idle"].clientIP
    ELSE inflight[c].clientIP

\* the local clientIP of call c
ClientOf(c) == inflight[c].clientIP

\* the other variables of the model, which no statement of ServeHTTP touches
notServing ==
    <<config, next, handler, err, cache, req, clientIP, resp, now, last, prev,
      arg, result, logger, logged>>

\* clientIP := b.getClientIP(req)
Begin(c, reqs) ==
    /\ handler # Nil
    /\ inflight[c].pc = "idle"
    /\ \E r \in reqs :
        inflight' = [inflight EXCEPT ![c] =
                        [pc |-> "whitelist", req |-> r,
                         clientIP |-> getClientIP(r), resp |-> NoResponse]]
    /\ UNCHANGED notServing

\* if b.config.Debug ...; if b.isWhitelisted(clientIP) { b.next.ServeHTTP; return }
CheckWhitelist(c) ==
    /\ inflight[c].pc = "whitelist"
    /\ inflight' = [inflight EXCEPT ![c] =
            IF config = Nil THEN [@ EXCEPT !.pc = "done", !.resp = Panic]
            ELSE IF isWhitelisted(config, ClientOf(c))
            THEN [@ EXCEPT !.pc = "done", !.resp = CallNext(handler.next)]
            ELSE [@ EXCEPT !.pc = "blocked"]]
    /\ UNCHANGED notServing

\* if b.isBlocked(clientIP) { rw.WriteHeader; rw.Write; return }; b.next.ServeHTTP
CheckBlocked(c) ==
    /\ inflight[c].pc = "blocked"
    /\ inflight' = [inflight EXCEPT ![c] =
            IF isBlocked(config, ClientOf(c))
            THEN [@ EXCEPT !.pc = "done",
                           !.resp = WriteRejection(config.StatusCode, config.Message)]
            ELSE [@ EXCEPT !.pc = "done", !.resp = CallNext(handler.next)]]
    /\ UNCHANGED notServing

\* ServeHTTP returns and the goroutine ends
Return(c) ==
    /\ inflight[c].pc = "done"
    /\ inflight' = [inflight EXCEPT ![c] = IdleCall]
    /\ UNCHANGED notServing

\* configurations and requests for the calls side by side
ConcConfigs ==
    {[CreateConfig EXCEPT !.BlockedIPs = bi, !.BlockedCIDRs = bc, !.WhitelistIPs = wi] :
        bi \in Windows(<<"10.0.0.1">>),
        bc \in Windows(<<"10.0.0.0/8">>),
        wi \in Windows(<<"10.0.1.2">>)}

ConcRequests ==
    {Request("", "", "", remote) :
        remote \in {"10.0.0.1:1234", "10.0.1.2:80", "192.168.1.50:1234"}}

NextConc ==
    \/ NewCall(ConcConfigs, {Downstream})
    \/ \E c \in Calls : Begin(c, ConcRequests)
    \/ \E c \in Calls : CheckWhitelist(c)
    \/ \E c \in Calls : CheckBlocked(c)
    \/ \E c \in Calls : Return(c)

SpecConc == Init /\ [][NextConc]_vars

\* rule evaluation: one handler, requests by peer address and X-Forwarded-For
Next ==
    \/ NewCall(RuleConfigs, {Downstream})
    \/ ServeHTTP(RuleRequests) /\ UNCHANGED <<last, prev>>

Spec == Init /\ [][Next]_vars

\* client-address resolution: every combination of the four sources
NextResolve ==
    \/ NewCall(ResolveConfigs, {Downstream})
    \/ ServeHTTP(ResolveRequests) /\ UNCHANGED <<last, prev>>

SpecResolve == Init /\ [][NextResolve]_vars

\* construction: nil and non-nil arguments, every status code
NextNew ==
    \/ NewCall(NewConfigs, {Nil, Downstream})

SpecNew == Init /\ [][NextNew]_vars

\* configurations and requests for the fault claims: handlers built from nil
\* and non-nil arguments
FaultConfigs == {Nil} \cup ResolveConfigs

NextFault ==
    \/ NewCall(FaultConfigs, {Nil, Downstream})
    \/ ServeHTTP(RuleRequests) /\ UNCHANGED <<last, prev>>

SpecFault == Init /\ [][NextFault]_vars

\* repeated requests over time, with the rule lists rewritten in between
NextCache ==
    \/ NewCall(CacheConfigs, {Downstream})
    \/ ServeHTTP(CacheRequests) /\ Observe
    \/ Tick
    \/ SetBlockedIPs
    \/ SetWhitelistIPs

SpecCache == Init /\ [][NextCache]_vars

----------------------------------------------------------------------------
(* The claims.  What a claim calls "in the whitelist" or "in the blocklist" *)
(* is stated here on its own terms, from the rule lists and the library's  *)
(* parsers, not through isWhitelisted, isBlocked or matchCIDR.             *)

\* a request has been served
Served == req # NoRequest /\ config # Nil

\* a equals an entry of list
InList(list, a) == \E i \in DOMAIN list : list[i] = a

\* a is an address inside one of the ranges of cidrs
InRange(cidrs, a) ==
    /\ ParseIP(a) # Nil
    /\ \E i \in DOMAIN cidrs :
        /\ ~ParseCIDR(cidrs[i]).err
        /\ Contains(ParseCIDR(cidrs[i]), ParseIP(a))

InWhitelist(cfg, a) == InList(cfg.WhitelistIPs, a) \/ InRange(cfg.WhitelistCIDRs, a)
InBlocklist(cfg, a) == InList(cfg.BlockedIPs, a) \/ InRange(cfg.BlockedCIDRs, a)

\* C1: a request whose resolved client address is in the whitelist (an entry
\* of WhitelistIPs or inside a range of WhitelistCIDRs) is forwarded to the
\* next handler and not rejected, whatever the blocklist contains.
WhitelistPrecedence ==
    (Served /\ InWhitelist(config, clientIP)) => Forwarded(resp)

\* C1 witness: an address that is in the whitelist and in the blocklist at
\* once has been served, and forwarded
WhitelistedAndBlockedServed ==
    /\ Served
    /\ InWhitelist(config, clientIP)
    /\ InBlocklist(config, clientIP)
    /\ Forwarded(resp)

\* C2: a request whose resolved client address is in the blocklist (an entry
\* of BlockedIPs or inside a range of BlockedCIDRs, IPv4 or IPv6) and not in
\* the whitelist is rejected: next is not called and the response carries
\* exactly the configured StatusCode and the configured Message as body.
BlockedRejected ==
    (Served /\ InBlocklist(config, clientIP) /\ ~InWhitelist(config, clientIP))
        => /\ Rejected(resp)
           /\ resp.status = config.StatusCode
           /\ resp.body = config.Message

\* C2 witness: an IPv6 address that only a blocked range covers has been
\* rejected with a status code other than the default
BlockedByIPv6RangeServed ==
    /\ Served
    /\ clientIP = "2001:db8::1"
    /\ ~InList(config.BlockedIPs, clientIP)
    /\ InRange(config.BlockedCIDRs, clientIP)
    /\ ~InWhitelist(config, clientIP)
    /\ Rejected(resp)
    /\ resp.status = 500
    /\ resp.body = "Blocked"

\* C3: a request whose resolved client address is a valid address that
\* matches neither the whitelist nor the blocklist is forwarded to the next
\* handler.
UnlistedForwarded ==
    (/\ Served
     /\ ParseIP(clientIP) # Nil
     /\ ~InWhitelist(config, clientIP)
     /\ ~InBlocklist(config, clientIP)) => Forwarded(resp)

\* C3 witness: a valid address outside every rule has been forwarded by a
\* handler whose blocklist has entries and ranges
UnlistedServed ==
    /\ Served
    /\ ParseIP(clientIP) # Nil
    /\ config.BlockedIPs # <<>>
    /\ config.BlockedCIDRs # <<>>
    /\ ~InWhitelist(config, clientIP)
    /\ ~InBlocklist(config, clientIP)
    /\ Forwarded(resp)
\* what the peer address of r is: the host of RemoteAddr, the port split off
PeerAddress(r) ==
    Let(SplitHostPort(r.RemoteAddr), LAMBDA hp :
        IF hp.err = "" THEN hp.host ELSE r.RemoteAddr)

\* the address the four sources of r yield, in the order of precedence: the
\* first valid segment of X-Forwarded-For, else a valid X-Real-IP, else a
\* valid CF-Connecting-IP, else a valid peer address, else none ("")
FirstValidSource(r) ==
    IF ExtractIPFromString(r.xff) # "" THEN ExtractIPFromString(r.xff)
    ELSE IF ValidateIP(r.xri) THEN TrimSpace(r.xri)
    ELSE IF ValidateIP(r.cf) THEN TrimSpace(r.cf)
    ELSE IF ValidateIP(PeerAddress(r)) THEN TrimSpace(PeerAddress(r))
    ELSE ""

\* C4: fail-open.  A request from which no valid client address can be
\* extracted (no header and no peer address yields a valid IP) is forwarded,
\* never rejected, for every content of the blocklist.
FailOpen ==
    (Served /\ FirstValidSource(req) = "") => Forwarded(resp)

\* C5: the client address is taken from the first source, in the order
\* X-Forwarded-For, X-Real-IP, CF-Connecting-IP, peer address, that yields a
\* valid address; a lower source is used only when every higher one is
\* absent or yields no valid address.
FirstValidSourceWins ==
    (Served /\ FirstValidSource(req) # "") => clientIP = FirstValidSource(req)

\* C6: of a comma-separated X-Forwarded-For the resolver returns the first
\* trimmed segment that validates as an IP address, skipping the segments
\* before it that do not validate.
FirstValidSegment ==
    (Served /\ ExtractIPFromString(req.xff) # "")
        => clientIP = ExtractIPFromString(req.xff)

\* New has returned
NewReturned == handler # Nil \/ err # Nil

\* C7: New returns an error for every configuration whose StatusCode lies
\* outside 400..599 and succeeds for every StatusCode inside that range.
StatusCodeChecked ==
    (NewReturned /\ config # Nil /\ next # Nil)
        => (err # Nil <=> config.StatusCode \notin 400..599)

\* C8: New returns an error and no handler when the configuration is nil
\* and when the next handler is nil.
NilArgumentsRefused ==
    (NewReturned /\ (config = Nil \/ next = Nil)) => (err # Nil /\ handler = Nil)

\* C9: cache consistency.  Once a request for an address has been decided,
\* every further request for that address within CacheTTL seconds of the
\* decision gets the same outcome, whatever was done to the rule lists in
\* between.
CacheConsistency ==
    (Served /\ prev # Nil /\ prev.servedAt - prev.Timestamp <= config.CacheTTL)
        => (Rejected(resp) <=> prev.Status = "blocked")

\* C10: a decision taken for an address is used only while
\* now - Timestamp <= CacheTTL.  A request for that address served later is
\* decided by evaluating the whitelist and the blocklist as they are then.
StaleDecisionReevaluated ==
    [][(/\ prev' # prev
        /\ prev' # Nil
        /\ prev'.servedAt - prev'.Timestamp > config'.CacheTTL)
       => (Rejected(resp') <=> (/\ InBlocklist(config', clientIP')
                                /\ ~InWhitelist(config', clientIP')))]_vars

\* C10 witness: a request served after the decision noted for its address
\* had expired got the opposite outcome, the rule lists having changed
StaleDecisionOverturned ==
    /\ Served
    /\ prev # Nil
    /\ prev.servedAt - prev.Timestamp > config.CacheTTL
    /\ Rejected(resp) # (prev.Status = "blocked")
\* cfg with every entry that is not a valid IP (in the two address lists) or
\* not a valid CIDR (in the two range lists) removed
WithoutMalformed(cfg) ==
    [cfg EXCEPT !.BlockedIPs = SelectSeq(@, ValidateIP),
                !.BlockedCIDRs = SelectSeq(@, ValidateCIDR),
                !.WhitelistIPs = SelectSeq(@, ValidateIP),
                !.WhitelistCIDRs = SelectSeq(@, ValidateCIDR)]

\* C11: a malformed entry in BlockedIPs, BlockedCIDRs, WhitelistIPs or
\* WhitelistCIDRs never makes New fail and never matches a request: every
\* request is decided as under the same configuration with the malformed
\* entries removed.
MalformedEntriesInert ==
    Served => (err = Nil /\ resp = Serve(handler.next, WithoutMalformed(config), req))
\* Forward: next is invoked exactly once and the filter writes no status, no
\* header and no body
ForwardOutcome(rs) ==
    /\ rs.nextCalls = 1
    /\ rs.headerWrites = 0 /\ rs.bodyWrites = 0 /\ rs.header = {}
    /\ rs.status = 0 /\ rs.body = ""
    /\ ~rs.panicked

\* Reject: the rejection is written exactly once and next is not invoked
RejectOutcome(rs) ==
    /\ rs.nextCalls = 0
    /\ rs.headerWrites = 1 /\ rs.bodyWrites = 1
    /\ ~rs.panicked

\* C12: every handled request ends in exactly one of the two outcomes,
\* Forward or Reject; never both and never neither.
ExactlyOneOutcome ==
    Served => (ForwardOutcome(resp) # RejectOutcome(resp))

\* C12 witness: a request has been rejected: written to once, next not called
RejectedOnceServed ==
    /\ Served
    /\ RejectOutcome(resp)
    /\ ~ForwardOutcome(resp)
    /\ resp.status = config.StatusCode

\* strconv.Itoa for n >= 0
RECURSIVE Itoa(_)
Itoa(n) == IF n < 10 THEN DecDigits[n + 1] ELSE Itoa(n \div 10) \o DecDigits[(n % 10) + 1]

\* C13: every rejection response carries the header
\* Content-Type: text/plain; charset=utf-8 and a Content-Length header equal
\* to the byte length of the configured message, and the body is the message,
\* written exactly once.
RejectionHeaders ==
    (Served /\ Rejected(resp))
        => /\ <<"Content-Type", "text/plain; charset=utf-8">> \in resp.header
           /\ <<"Content-Length", Itoa(Len(config.Message))>> \in resp.header
           /\ resp.body = config.Message
           /\ resp.bodyWrites = 1

\* C14: after New has returned without error no ServeHTTP call panics, for
\* any request and any rule entries: the call ends in Forward or Reject.
NoRequestFaults ==
    (req # NoRequest /\ err = Nil)
        => (~resp.panicked /\ (Forwarded(resp) \/ Rejected(resp)))
\* call ended as its own address and the rule lists say: rejected when the
\* address is blocked and not whitelisted, forwarded otherwise
DecidedOnItsOwn(cfg, call) ==
    Let(getClientIP(call.req), LAMBDA a :
        IF InBlocklist(cfg, a) /\ ~InWhitelist(cfg, a)
        THEN Rejected(call.resp)
        ELSE Forwarded(call.resp))

\* C15: ServeHTTP calls running side by side are safe under every
\* interleaving: no statement of a call writes state the calls share (the
\* Config, the next handler, the cache map), and every call ends as its own
\* address and the rule lists say, whatever the calls beside it do.
ConcurrentCallsSafe ==
    [][(inflight' # inflight)
       => /\ UNCHANGED <<config, next, handler, cache>>
          /\ \A c \in Calls :
                inflight'[c].pc = "done" => DecidedOnItsOwn(config', inflight'[c])]_vars

\* C15 witness: two calls for different addresses have run side by side, one
\* ending in a rejection and the other forwarded
TwoCallsSideBySide ==
    /\ inflight[1].pc = "done" /\ inflight[2].pc = "done"
    /\ inflight[1].clientIP # inflight[2].clientIP
    /\ Rejected(inflight[1].resp)
    /\ Forwarded(inflight[2].resp)
\* C16: once a request with a non-empty client address has been served, the
\* cache map holds an entry under that address carrying the classification
\* the evaluation produced (whitelisted, blocked, or allowed).
ClassificationRecorded ==
    (Served /\ clientIP # "")
        => \E k \in DOMAIN cache :
              /\ k = clientIP
              /\ cache[k].Status =
                    IF isWhitelisted(config, clientIP) THEN "whitelisted"
                    ELSE IF isBlocked(config, clientIP) THEN "blocked"
                    ELSE "allowed"
\* age of the entry under k at the current time
Age(k) == now - cache[k].Timestamp

\* C17: an insertion that leaves the table with more than the capacity
\* threshold sweeps before it returns: afterwards the table holds the new
\* entry and exactly the old entries whose age is within the TTL, unchanged;
\* an insertion that does not exceed the threshold removes nothing.
SweepOnOverflow ==
    [][(\E key \in SweepKeys : RecordCall(key))
       => Let(arg'.key, LAMBDA key :
            /\ cache'[key] = [Status |-> Classify(config, key), Timestamp |-> now]
            /\ \A k \in Keys(cache') \ {key} : cache'[k] = cache[k]
            /\ Keys(cache') =
                  IF Cardinality(Keys(cache) \cup {key}) > MaxCacheEntries
                  THEN {key} \cup {k \in Keys(cache) : Age(k) <= config.CacheTTL}
                  ELSE Keys(cache) \cup {key})]_vars

\* C17 witness: an insertion has swept, deleting a stale entry and keeping,
\* besides the new entry, an old entry whose age is exactly the TTL
SweptStaleKeptFresh ==
    /\ handler # Nil /\ result # Nil
    /\ result.deleted >= 1
    /\ \E k \in Keys(cache) : k # arg.key /\ Age(k) = config.CacheTTL
AllDigits(s) == \A i \in 0..(Len(s) - 1) : IsDigit(At(s, i))

\* t is an address, a slash and a prefix length within the bit width of the
\* address's family: 0..32 for a dotted IPv4 address, 0..128 for an IPv6 one
IsCIDRLiteral(t) ==
    Let(IndexByte(t, "/"), LAMBDA i :
        /\ i >= 0
        /\ ParseIP(Slice(t, 0, i)) # Nil
        /\ From(t, i + 1) # ""
        /\ AllDigits(From(t, i + 1))
        /\ DecValue(From(t, i + 1), 0)
              <= (IF IndexByte(Slice(t, 0, i), ":") >= 0 THEN 128 ELSE 32))

\* C19: ValidateCIDR is true exactly for the texts that are, blanks around
\* them aside, a valid address, a slash and a prefix length within the bit
\* width of the address's family; so it is false for /33 on an IPv4 address,
\* for a network part that is not an address, and for empty or blank input.
ValidateCIDRExact ==
    result # Nil => (result.ok <=> IsCIDRLiteral(TrimSpace(arg)))

\* C19 witness: ValidateCIDR has refused an IPv4 address with prefix /33
OutOfRangePrefixRefused ==
    result # Nil /\ arg = "192.168.0.0/33" /\ ~result.ok
\* C20: the client address getClientIP returns is the empty string or a text
\* that validates as an IPv4 or IPv6 address.
ClientAddressValid ==
    req # NoRequest => (clientIP = "" \/ ValidateIP(clientIP))
\* C21: two texts of the same IP address get the same answer from
\* isWhitelisted and from isBlocked, and the same Forward/Reject outcome.
SameAddressSameAnswer ==
    result # Nil
        => /\ result.whitelistedA = result.whitelistedB
           /\ result.blockedA = result.blockedB
           /\ result.respA = result.respB
\* C22: the Debug flag gates diagnostic output only: a request gets the same
\* outcome (forward or reject, status code, body) from a handler with Debug
\* on as from one with Debug off, and with Debug off nothing is printed.
DebugGatesOutputOnly ==
    result # Nil => (result.respOn = result.respOff /\ result.printedOff = <<>>)

\* C22 witness: a request has been rejected with Debug on, after lines
\* about the request and about a CIDR that does not parse were printed
RejectedWithDiagnostics ==
    /\ result # Nil
    /\ Rejected(result.respOn)
    /\ \E i \in DOMAIN result.printedOn : result.printedOn[i] = "Invalid CIDR"
    /\ result.printedOn[Len(result.printedOn)] = "blocked, rejecting"
\* the messages among those handed to the logger that it is to keep: all
\* but the Debug ones of a logger whose debug is off
Kept == SelectSeq(logged, LAMBDA m : m.level # "DEBUG" \/ logger.debug)

\* the last n elements of s, all of s when it has fewer
LastOf(s, n) == IF Len(s) <= n THEN s ELSE SubSeq(s, Len(s) - n + 1, Len(s))

\* C23: whatever sequence of Debug, Info, Warn, Error, GetLogs and ClearLogs
\* calls has run, the buffer holds at most maxBuffSize messages and they are
\* the most recent messages in logging order: a message logged onto a full
\* buffer has pushed out the oldest one only, and Debug has added nothing
\* when debug is off.
BufferHoldsMostRecent ==
    logger # Nil
        => /\ Len(logger.logBuffer) <= logger.maxBuffSize
           /\ logger.logBuffer = LastOf(Kept, logger.maxBuffSize)

\* C23 witness: a logger with debug off has been given a Debug message and
\* more messages than its buffer holds, so its buffer is full and has rotated
RotatedWithDebugOff ==
    /\ logger # Nil
    /\ ~logger.debug
    /\ \E i \in DOMAIN logged : logged[i].level = "DEBUG"
    /\ Len(Kept) > logger.maxBuffSize
    /\ Len(logger.logBuffer) = logger.maxBuffSize
\* the addresses a request names: every X-Forwarded-For entry and the peer
\* address without its port, blanks and brackets around them removed
NamedAddresses(r) ==
    {TrimBrackets(TrimSpace(Split(r.xff, ",")[i])) : i \in 1..Len(Split(r.xff, ","))}
    \cup {TrimBrackets(TrimSpace(IF SplitHostPort(r.RemoteAddr).err = ""
                                 THEN SplitHostPort(r.RemoteAddr).host
                                 ELSE r.RemoteAddr))}

\* the address a is denied by the entry e of the deny list: e is a CIDR
\* range that holds a, or e is an IP equal to a
DeniedBy(e, a) ==
    IF ParseCIDR(TrimBrackets(e)).err
    THEN ParseIP(TrimBrackets(e)) = a
    ELSE Contains(ParseCIDR(TrimBrackets(e)), a)

\* C24: a request to the denyip handler is answered with 403 and not
\* forwarded exactly when one of the addresses it names parses as an IP and
\* is denied by an entry of the deny list; otherwise it is forwarded.  Texts
\* that do not parse are passed over.
DeniedIffNamedAddressDenied ==
    (result # Nil /\ result.resp # Nil)
        => IF \E t \in NamedAddresses(arg.req) :
                /\ ParseIP(t) # Nil
                /\ \E i \in DOMAIN arg.cfg.IPDenyList :
                      DeniedBy(arg.cfg.IPDenyList[i], ParseIP(t))
           THEN result.resp = Forbidden
           ELSE Forwarded(result.resp)

\* C24 witness: a request whose X-Forwarded-For names a text that is no
\* address and then a denied address, from a peer that is not denied, has
\* been answered with 403
DeniedPastUnparsableEntry ==
    /\ result # Nil /\ result.resp # Nil
    /\ arg.req.xff = "bad, 10.0.0.1"
    /\ arg.req.RemoteAddr = "8.8.8.8:53"
    /\ result.resp.status = 403 /\ result.resp.nextCalls = 0


====
